---- MODULE Spec2Model ----
(***************************************************************************)
(* A model of merge_csv_files.py: the command-line tool that merges crime  *)
(* data CSV files, removes exact duplicate rows, aggregates logical        *)
(* duplicates by summing 'Offence count', sorts and writes one CSV; and of *)
(* filter_crime_data.py: the command-line tool that keeps the rows of the  *)
(* requested suburbs, read chunk by chunk, sorts and writes one CSV.       *)
(*                                                                         *)
(* A CSV file is a record [kind, columns, rows]; the rows of a table are   *)
(* functions from column names to the text of the cell.  A DataFrame is a  *)
(* sequence of rows whose cells are the text read, NaN for a missing       *)
(* value, and an integer in 'Offence count' once it has been converted.    *)
(***************************************************************************)
EXTENDS Integers, Sequences, FiniteSets, TLC

VARIABLES
    files,             \* the CSV files named on the command line
    pc,                \* position in main and the function it has called
    idx,               \* position of the for loop over input_files
    merged_data,       \* list of the DataFrames appended so far
    total_rows,        \* rows counted by the loop
    merged_df,         \* the DataFrame being concatenated, deduplicated, aggregated, sorted
    exact_duplicates,  \* merged_df.duplicated().sum()
    duplicate_counts,  \* merged_df.duplicated(subset=grouping_columns, keep=False).sum()
    output,            \* what is at the output path
    error,             \* which error message ended the run, "" if none
    suburbs,               \* filter: args.suburbs
    chunk_start,           \* filter: rows of the current file read in earlier chunks
    filtered_chunks,       \* filter: list of the filtered chunks appended so far
    total_filtered_rows,   \* filter: rows counted by the loop
    filtered_data          \* filter: the DataFrame filter_crime_data returns

\* The variables of filter_crime_data.py alone, and those of merge_csv_files.py
\* alone; files, pc, idx, output and error are of both tools.
filter_vars == <<suburbs, chunk_start, filtered_chunks, total_filtered_rows, filtered_data>>

merge_vars == <<merged_data, total_rows, merged_df, exact_duplicates, duplicate_counts>>

vars == <<files, pc, idx, output, error, merge_vars, filter_vars>>

---------------------------------------------------------------------------
(* Bounds of the model *)

\* The size of the input: the files named plus the rows they hold.
MaxSize == 4
\* The rows of a file whose header is not the required one.
MaxVariantRows == 1
\* The counts whose decimal text the model knows: -MaxCount..MaxCount.
MaxCount == 99

---------------------------------------------------------------------------
(* The schema *)

REQUIRED_COLUMNS ==
    << "Reported Date", "Suburb - Incident", "Postcode - Incident",
       "Offence Level 1 Description", "Offence Level 2 Description",
       "Offence Level 3 Description", "Offence count" >>

grouping_columns ==
    << "Reported Date", "Suburb - Incident", "Postcode - Incident",
       "Offence Level 1 Description", "Offence Level 2 Description",
       "Offence Level 3 Description" >>

sort_columns == << "Reported Date", "Suburb - Incident" >>

Range(s) == {s[i] : i \in 1..Len(s)}

\* The missing value of a DataFrame.  read_csv turns the text "NaN" (like
\* every other NA text) into the missing value, so no cell that was read holds
\* the text "NaN" and the marker collides with no value.
NaN == "NaN"

\* pandas' default NA texts (those the model's files use).
NaValues == {"", "NA", "NaN", "N/A", "null"}

---------------------------------------------------------------------------
(* Text and its order: Python compares str by code point, lexicographically *)

Codepoints(s) ==
    CASE s = "01/02/2024" -> <<48, 49, 47, 48, 50, 47, 50, 48, 50, 52>>
      [] s = "02/01/2024" -> <<48, 50, 47, 48, 49, 47, 50, 48, 50, 52>>
      [] s = "X"          -> <<88>>
      [] s = "Y"          -> <<89>>
      [] s = "5000"       -> <<53, 48, 48, 48>>
      [] s = "5001"       -> <<53, 48, 48, 49>>
      [] s = "Theft"      -> <<84, 104, 101, 102, 116>>
      [] s = "Shop Theft" -> <<83, 104, 111, 112, 32, 84, 104, 101, 102, 116>>

SeqLess(a, b) ==
    \E i \in 1..(Len(b)) :
        /\ \A j \in 1..(i - 1) : j <= Len(a) /\ a[j] = b[j]
        /\ \/ i = Len(a) + 1
           \/ i <= Len(a) /\ a[i] < b[i]

StrLess(a, b) == a /= b /\ SeqLess(Codepoints(a), Codepoints(b))

---------------------------------------------------------------------------
(* Files *)

NoFile      == [kind |-> "absent",     columns |-> {}, rows |-> <<>>]
MissingFile == [kind |-> "missing",    columns |-> {}, rows |-> <<>>]
EmptyFile   == [kind |-> "empty",      columns |-> {}, rows |-> <<>>]
GarbledFile == [kind |-> "garbled",    columns |-> {}, rows |-> <<>>]
LockedFile  == [kind |-> "unreadable", columns |-> {}, rows |-> <<>>]
PartialFile == [kind |-> "partial",    columns |-> {}, rows |-> <<>>]

Table(cols, rows) == [kind |-> "table", columns |-> cols, rows |-> rows]

\* os.path.isfile(file)
IsFile(f) == f.kind /= "missing"

---------------------------------------------------------------------------
(* pandas: read_csv, to_numeric, fillna, astype *)

\* pd.read_csv(file, dtype=str) of a file that parses: every cell is kept as
\* its text, except the NA texts, which become NaN.
ReadCell(s) == IF s \in NaValues THEN NaN ELSE s

ReadCsv(f) ==
    [i \in 1..Len(f.rows) |-> [c \in f.columns |-> ReadCell(f.rows[i][c])]]

\* What read_csv raises, "" when it returns a DataFrame.
ReadRaises(f) ==
    CASE f.kind = "empty"      -> "EmptyDataError"
      [] f.kind = "garbled"    -> "ParserError"
      [] f.kind = "unreadable" -> "Exception"
      [] f.kind = "missing"    -> "Exception"
      [] OTHER                 -> ""

\* The decimal text of the integers of the model.
IntText == [n \in (0 - MaxCount)..MaxCount |-> ToString(n)]

\* The decimal texts, and the integer each denotes.
IntTexts == {IntText[n] : n \in DOMAIN IntText}

IntOfText == [t \in IntTexts |-> CHOOSE n \in DOMAIN IntText : IntText[n] = t]

\* A float64 of the model: NaN, an infinity, or a number of tenths.
FNan       == [nan |-> TRUE,  inf |-> FALSE, tenths |-> 0]
FInf       == [nan |-> FALSE, inf |-> TRUE,  tenths |-> 0]
FNum(t)    == [nan |-> FALSE, inf |-> FALSE, tenths |-> t]

\* pd.to_numeric(cell, errors='coerce'): the number the text denotes, NaN for
\* a missing value and for text that denotes no number.
ToNumeric(cell) ==
    IF cell = NaN THEN FNan
    ELSE IF cell \in IntTexts THEN FNum(10 * IntOfText[cell])
    ELSE CASE cell = "2.5"  -> FNum(25)
           [] cell = "inf"  -> FInf
           [] OTHER         -> FNan

\* .fillna(0)
FillNa(x) == IF x.nan THEN FNum(0) ELSE x

\* A variant that rounds to the nearest integer instead of cutting the
\* fraction off.
AsTypeInt_Rounds(x) ==
    IF x.tenths >= 0 THEN (x.tenths + 5) \div 10 ELSE 0 - ((5 - x.tenths) \div 10)

\* .astype(int) of a finite value: the fraction is cut off, towards zero.
AsTypeInt(x) ==
    IF x.tenths >= 0 THEN x.tenths \div 10 ELSE 0 - ((0 - x.tenths) \div 10)

\* .astype(int) raises on a non-finite value.
AsTypeRaises(x) == x.inf \/ x.nan

\* pd.to_numeric(...).fillna(0): the column as floats
CountValue(cell) == FillNa(ToNumeric(cell))

---------------------------------------------------------------------------
(* validate_columns and the body of the loop of merge_csv_files *)

MissingCols(df_columns) == {c \in Range(REQUIRED_COLUMNS) : c \notin df_columns}

\* df = df[REQUIRED_COLUMNS]; df['Offence count'] = pd.to_numeric(...)...
SelectAndConvert(df) ==
    [i \in 1..Len(df) |->
        [c \in Range(REQUIRED_COLUMNS) |->
            IF c = "Offence count" THEN AsTypeInt(CountValue(df[i][c]))
            ELSE df[i][c]]]

ConvertRaises(df) ==
    \E i \in 1..Len(df) : AsTypeRaises(CountValue(df[i]["Offence count"]))

\* A variant that skips a file with a missing column and goes on.
ProcessOne_MissingColumnSkips(f) ==
    LET raised == ReadRaises(f)
        df     == ReadCsv(f)
    IN  CASE raised = "EmptyDataError" ->
               [step |-> "skip", error |-> "", df |-> <<>>]
          [] raised = "ParserError" ->
               [step |-> "exit", error |-> "parse_error", df |-> <<>>]
          [] raised = "Exception" ->
               [step |-> "exit", error |-> "unexpected_error", df |-> <<>>]
          [] OTHER ->
               IF MissingCols(f.columns) /= {}
               THEN [step |-> "skip", error |-> "", df |-> <<>>]
               ELSE IF ConvertRaises(df)
               THEN [step |-> "exit", error |-> "unexpected_error", df |-> <<>>]
               ELSE [step |-> "append", error |-> "", df |-> SelectAndConvert(df)]

\* A variant that skips a file that does not parse and goes on.
ProcessOne_ParserErrorSkips(f) ==
    LET raised == ReadRaises(f)
        df     == ReadCsv(f)
    IN  CASE raised = "EmptyDataError" ->
               [step |-> "skip", error |-> "", df |-> <<>>]
          [] raised = "ParserError" ->
               [step |-> "skip", error |-> "", df |-> <<>>]
          [] raised = "Exception" ->
               [step |-> "exit", error |-> "unexpected_error", df |-> <<>>]
          [] OTHER ->
               IF MissingCols(f.columns) /= {}
               THEN [step |-> "exit", error |-> "missing_column", df |-> <<>>]
               ELSE IF ConvertRaises(df)
               THEN [step |-> "exit", error |-> "unexpected_error", df |-> <<>>]
               ELSE [step |-> "append", error |-> "", df |-> SelectAndConvert(df)]

\* A variant in which an empty file ends the run like any other error.
ProcessOne_EmptyDataErrorExits(f) ==
    LET raised == ReadRaises(f)
        df     == ReadCsv(f)
    IN  CASE raised = "EmptyDataError" ->
               [step |-> "exit", error |-> "unexpected_error", df |-> <<>>]
          [] raised = "ParserError" ->
               [step |-> "exit", error |-> "parse_error", df |-> <<>>]
          [] raised = "Exception" ->
               [step |-> "exit", error |-> "unexpected_error", df |-> <<>>]
          [] OTHER ->
               IF MissingCols(f.columns) /= {}
               THEN [step |-> "exit", error |-> "missing_column", df |-> <<>>]
               ELSE IF ConvertRaises(df)
               THEN [step |-> "exit", error |-> "unexpected_error", df |-> <<>>]
               ELSE [step |-> "append", error |-> "", df |-> SelectAndConvert(df)]

\* One pass of the loop body over file f: what it appends, or how it ends.
\*   step = "append": df is appended to merged_data
\*   step = "skip":   the file is skipped with a warning (EmptyDataError)
\*   step = "exit":   sys.exit(1) with the error named
ProcessOne(f) ==
    LET raised == ReadRaises(f)
        df     == ReadCsv(f)
    IN  CASE raised = "EmptyDataError" ->
               [step |-> "skip", error |-> "", df |-> <<>>]
          [] raised = "ParserError" ->
               [step |-> "exit", error |-> "parse_error", df |-> <<>>]
          [] raised = "Exception" ->
               [step |-> "exit", error |-> "unexpected_error", df |-> <<>>]
          [] OTHER ->
               IF MissingCols(f.columns) /= {}
               THEN [step |-> "exit", error |-> "missing_column", df |-> <<>>]
               ELSE IF ConvertRaises(df)
               THEN [step |-> "exit", error |-> "unexpected_error", df |-> <<>>]
               ELSE [step |-> "append", error |-> "", df |-> SelectAndConvert(df)]

---------------------------------------------------------------------------
(* pandas: concat, duplicated, drop_duplicates, groupby().sum(), sort_values *)

RECURSIVE Concat(_)
\* pd.concat(merged_data, ignore_index=True)
Concat(frames) ==
    IF frames = <<>> THEN <<>> ELSE Head(frames) \o Concat(Tail(frames))

\* The cells of row r in the columns cols (a sequence of column names).
Cells(r, cols) == [i \in 1..Len(cols) |-> r[cols[i]]]

\* df.duplicated(subset=cols) with keep='first': row i repeats an earlier row.
\* pandas takes two missing values as equal here.
DuplicatedFirst(df, cols) ==
    {i \in 1..Len(df) : \E j \in 1..(i - 1) : Cells(df[j], cols) = Cells(df[i], cols)}

\* df.duplicated(subset=cols, keep=False): row i has the cells of another row.
DuplicatedAny(df, cols) ==
    {i \in 1..Len(df) :
        \E j \in 1..Len(df) : j /= i /\ Cells(df[j], cols) = Cells(df[i], cols)}

RECURSIVE Drop(_, _, _)
\* The rows of df, from row i on, whose index is not in gone, in order.
Drop(df, gone, i) ==
    IF i > Len(df) THEN <<>>
    ELSE (IF i \in gone THEN <<>> ELSE <<df[i]>>) \o Drop(df, gone, i + 1)

\* merged_df.drop_duplicates(): the first of each set of equal rows is kept.
DropDuplicates(df) == Drop(df, DuplicatedFirst(df, REQUIRED_COLUMNS), 1)

\* "if exact_duplicates > 0: merged_df.drop_duplicates(inplace=True)"
RemoveExact(df) ==
    IF Cardinality(DuplicatedFirst(df, REQUIRED_COLUMNS)) > 0
    THEN DropDuplicates(df)
    ELSE df

\* The order of the group keys: cell by cell, as Python orders tuples of str.
KeyLess(k1, k2) ==
    \E i \in 1..Len(k1) :
        /\ \A j \in 1..(i - 1) : k1[j] = k2[j]
        /\ StrLess(k1[i], k2[i])

RECURSIVE SortKeys(_)
\* The keys of a set, ascending.
SortKeys(ks) ==
    IF ks = {} THEN <<>>
    ELSE LET least == CHOOSE k \in ks : \A other \in ks : ~KeyLess(other, k)
         IN  <<least>> \o SortKeys(ks \ {least})

RECURSIVE SumCounts(_, _, _)
\* The sum of 'Offence count' over the rows of df, from row i on, with key k.
SumCounts(df, k, i) ==
    IF i > Len(df) THEN 0
    ELSE (IF Cells(df[i], grouping_columns) = k THEN df[i]["Offence count"] ELSE 0)
         + SumCounts(df, k, i + 1)

\* The keys groupby keeps: dropna=True is the default, so a row with a missing
\* value in any grouping column belongs to no group.
GroupKeys(df) ==
    {Cells(df[i], grouping_columns) : i \in 1..Len(df)}
        \ {k \in {Cells(df[i], grouping_columns) : i \in 1..Len(df)} :
              \E j \in 1..Len(k) : k[j] = NaN}

\* merged_df.groupby(grouping_columns, as_index=False)["Offence count"].sum():
\* one row per group, the groups in ascending order of their keys (sort=True).
GroupBySum(df) ==
    LET keys == SortKeys(GroupKeys(df))
    IN  [g \in 1..Len(keys) |->
            [c \in Range(REQUIRED_COLUMNS) |->
                IF c = "Offence count" THEN SumCounts(df, keys[g], 1)
                ELSE keys[g][CHOOSE i \in 1..Len(grouping_columns) :
                                 grouping_columns[i] = c]]]

\* A variant that leaves logical duplicates as they are.
AggregateLogical_Never(df) == df

\* "if duplicate_counts > 0: merged_df = merged_df.groupby(...).sum()"
AggregateLogical(df) ==
    IF Cardinality(DuplicatedAny(df, grouping_columns)) > 0
    THEN GroupBySum(df)
    ELSE df

\* The order of sort_values on one column: ascending, missing values last.
CellLess(a, b) == a /= NaN /\ (b = NaN \/ StrLess(a, b))

\* Row r1 sorts strictly before row r2 by the columns cols.
RowLess(r1, r2, cols) ==
    \E i \in 1..Len(cols) :
        /\ \A j \in 1..(i - 1) : r1[cols[j]] = r2[cols[j]]
        /\ CellLess(r1[cols[i]], r2[cols[i]])

RECURSIVE InsertRow_BeforeTies(_, _, _)
\* A variant that puts the row before the rows it ties with: a sort that is
\* not stable.
InsertRow_BeforeTies(sorted, r, cols) ==
    IF sorted = <<>> THEN <<r>>
    ELSE IF ~RowLess(Head(sorted), r, cols) THEN <<r>> \o sorted
    ELSE <<Head(sorted)>> \o InsertRow_BeforeTies(Tail(sorted), r, cols)

RECURSIVE InsertRow(_, _, _)
\* Row r put into the sorted rows, after every row that does not sort after it.
InsertRow(sorted, r, cols) ==
    IF sorted = <<>> THEN <<r>>
    ELSE IF RowLess(r, Head(sorted), cols) THEN <<r>> \o sorted
    ELSE <<Head(sorted)>> \o InsertRow(Tail(sorted), r, cols)

RECURSIVE StableSort(_, _, _)
\* The rows of df after the first n, put one by one into sorted.
StableSort(df, sorted, cols) ==
    IF df = <<>> THEN sorted
    ELSE StableSort(Tail(df), InsertRow(sorted, Head(df), cols), cols)

\* A variant that leaves the rows in the order of the input.
SortValues_Unsorted(df) == df

\* merged_df.sort_values(by=[...]): with several columns pandas sorts by a
\* lexsort, which is stable: rows that tie keep their order.
SortValues(df) == StableSort(df, <<>>, sort_columns)

\* merged_df.to_csv(output_file, index=False): the text of each cell, the
\* empty text for a missing value, the decimal text of an integer.
ToCsv(df) ==
    Table(Range(REQUIRED_COLUMNS),
          [i \in 1..Len(df) |->
              [c \in Range(REQUIRED_COLUMNS) |->
                  IF c = "Offence count" THEN ToString(df[i][c])
                  ELSE IF df[i][c] = NaN THEN "" ELSE df[i][c]]])

---------------------------------------------------------------------------
(* The input files the model draws from *)

Row(date, suburb, postcode, count) ==
    ("Reported Date" :> date) @@ ("Suburb - Incident" :> suburb)
        @@ ("Postcode - Incident" :> postcode)
        @@ ("Offence Level 1 Description" :> "Theft")
        @@ ("Offence Level 2 Description" :> "Shop Theft")
        @@ ("Offence Level 3 Description" :> "Shop Theft")
        @@ ("Offence count" :> count)

\* Reported Date is written day/month/year: the first date is 1 February, the
\* second 2 January.  An empty suburb is a missing value.  The keys of the
\* rows: a key, a key that ties with it on the sort columns, a key with a
\* missing suburb, and a key with another date.
BaseKey == <<"01/02/2024", "X", "5000">>
TiedKey == <<"01/02/2024", "X", "5001">>
NoSuburbKey == <<"01/02/2024", "", "5000">>
OtherDateKey == <<"02/01/2024", "X", "5000">>

KeyPool == {BaseKey, TiedKey, NoSuburbKey, OtherDateKey}

\* The texts of 'Offence count': integers, a negative integer, a number that
\* is not an integer, text, nothing, an infinity.
PlainCounts == {"3", "5"}
OddCounts   == {"-2", "2.5", "abc", "", "inf"}

CountPool(k) ==
    CASE k = BaseKey     -> PlainCounts \cup OddCounts
      [] k = NoSuburbKey -> PlainCounts
      [] OTHER           -> {"3"}

RowPool == UNION { {Row(k[1], k[2], k[3], n) : n \in CountPool(k)} : k \in KeyPool }

\* The rows of a table whose header is not the required one: a column more,
\* or a column less.
Restrict(r, cols) == [c \in cols |-> IF c \in DOMAIN r THEN r[c] ELSE "e"]

HeaderPool ==
    { Range(REQUIRED_COLUMNS) \cup {"Extra"},
      Range(REQUIRED_COLUMNS) \ {"Offence count"} }

SeqsUpTo(S, n) == UNION {[1..k -> S] : k \in 0..n}

Min(a, b) == IF a <= b THEN a ELSE b

\* The files that hold exactly n rows.
FilesOf(n) ==
    (IF n = 0 THEN {MissingFile, EmptyFile, GarbledFile, LockedFile} ELSE {})
        \cup {Table(Range(REQUIRED_COLUMNS), rows) : rows \in [1..n -> RowPool]}
        \cup (IF n <= MaxVariantRows
              THEN {Table(h, [i \in 1..n |->
                                 Restrict(Row("01/02/2024", "X", "5000", "3"), h)]) :
                       h \in HeaderPool}
              ELSE {})

FileTable == [n \in 0..MaxSize |-> FilesOf(n)]

RECURSIVE SumSeq(_)
SumSeq(s) == IF s = <<>> THEN 0 ELSE Head(s) + SumSeq(Tail(s))

\* How many rows each file of a list holds: the files and their rows are at
\* most MaxSize together.  argparse, nargs="+": at least one input file.
SizeLists ==
    {s \in UNION {[1..n -> 0..(MaxSize - n)] : n \in 1..MaxSize} :
        Len(s) + SumSeq(s) <= MaxSize}

RECURSIVE InputsOf(_)
\* The lists of files with the given numbers of rows.
InputsOf(sizes) ==
    IF sizes = <<>> THEN {<<>>}
    ELSE {<<f>> \o rest : f \in FileTable[Head(sizes)], rest \in InputsOf(Tail(sizes))}

---------------------------------------------------------------------------
(* main and merge_csv_files, step by step *)

Init ==
    /\ \E sizes \in SizeLists : files \in InputsOf(sizes)
    /\ pc = "validate_files"
    /\ idx = 1
    /\ merged_data = <<>>
    /\ total_rows = 0
    /\ merged_df = <<>>
    /\ exact_duplicates = 0
    /\ duplicate_counts = 0
    /\ output = NoFile
    /\ error = ""
    /\ suburbs = <<>>
    /\ chunk_start = 0
    /\ filtered_chunks = <<>>
    /\ total_filtered_rows = 0
    /\ filtered_data = [columns |-> {}, rows |-> <<>>]

\* sys.exit(1) after the message named
Exit(message) ==
    /\ pc' = "exit"
    /\ error' = message

\* validate_files(args.input_files)
ValidateFiles ==
    /\ pc = "validate_files"
    /\ IF \E i \in 1..Len(files) : ~IsFile(files[i])
       THEN Exit("missing_file")
       ELSE pc' = "loop" /\ error' = error
    /\ UNCHANGED <<filter_vars, files, idx, merged_data, total_rows, merged_df,
                   exact_duplicates, duplicate_counts, output>>

\* A variant that writes the rows read so far after each file.
ProcessFile_WritesEarly ==
    /\ pc = "loop"
    /\ idx <= Len(files)
    /\ LET r == ProcessOne(files[idx])
       IN  CASE r.step = "append" ->
                  /\ merged_data' = Append(merged_data, r.df)
                  /\ total_rows' = total_rows + Len(r.df)
                  /\ idx' = idx + 1
                  /\ output' = ToCsv(Concat(merged_data'))
                  /\ UNCHANGED <<pc, error>>
             [] r.step = "skip" ->
                  /\ idx' = idx + 1
                  /\ UNCHANGED <<pc, error, merged_data, total_rows, output>>
             [] r.step = "exit" ->
                  /\ Exit(r.error)
                  /\ UNCHANGED <<idx, merged_data, total_rows, output>>
    /\ UNCHANGED <<filter_vars, files, merged_df, exact_duplicates, duplicate_counts>>

\* One pass of "for file in input_files"
ProcessFile ==
    /\ pc = "loop"
    /\ idx <= Len(files)
    /\ LET r == ProcessOne(files[idx])
       IN  CASE r.step = "append" ->
                  /\ merged_data' = Append(merged_data, r.df)
                  /\ total_rows' = total_rows + Len(r.df)
                  /\ idx' = idx + 1
                  /\ UNCHANGED <<pc, error>>
             [] r.step = "skip" ->
                  /\ idx' = idx + 1
                  /\ UNCHANGED <<pc, error, merged_data, total_rows>>
             [] r.step = "exit" ->
                  /\ Exit(r.error)
                  /\ UNCHANGED <<idx, merged_data, total_rows>>
    /\ UNCHANGED <<filter_vars, files, merged_df, exact_duplicates, duplicate_counts, output>>

\* After the loop: "if not merged_data", then pd.concat
ConcatFrames ==
    /\ pc = "loop"
    /\ idx > Len(files)
    /\ IF merged_data = <<>>
       THEN Exit("no_data") /\ UNCHANGED merged_df
       ELSE /\ merged_df' = Concat(merged_data)
            /\ pc' = "drop_duplicates"
            /\ error' = error
    /\ UNCHANGED <<filter_vars, files, idx, merged_data, total_rows,
                   exact_duplicates, duplicate_counts, output>>

\* Remove exact duplicate rows
RemoveExactDuplicates ==
    /\ pc = "drop_duplicates"
    /\ exact_duplicates' = Cardinality(DuplicatedFirst(merged_df, REQUIRED_COLUMNS))
    /\ merged_df' = RemoveExact(merged_df)
    /\ pc' = "aggregate"
    /\ UNCHANGED <<filter_vars, files, idx, merged_data, total_rows, duplicate_counts, output, error>>

\* Identify and aggregate logical duplicates
AggregateLogicalDuplicates ==
    /\ pc = "aggregate"
    /\ duplicate_counts' = Cardinality(DuplicatedAny(merged_df, grouping_columns))
    /\ merged_df' = AggregateLogical(merged_df)
    /\ pc' = "sort"
    /\ UNCHANGED <<filter_vars, files, idx, merged_data, total_rows, exact_duplicates, output, error>>

\* merged_df.sort_values(by=["Reported Date", "Suburb - Incident"], inplace=True)
SortRows ==
    /\ pc = "sort"
    /\ merged_df' = SortValues(merged_df)
    /\ pc' = "to_csv"
    /\ UNCHANGED <<filter_vars, files, idx, merged_data, total_rows,
                   exact_duplicates, duplicate_counts, output, error>>

\* merged_df.to_csv(output_file, index=False) returns
SaveOutput ==
    /\ pc = "to_csv"
    /\ output' = ToCsv(merged_df)
    /\ pc' = "done"
    /\ UNCHANGED <<filter_vars, files, idx, merged_data, total_rows, merged_df,
                   exact_duplicates, duplicate_counts, error>>

\* merged_df.to_csv raises: the path cannot be opened, or the write breaks off
\* and leaves part of the table behind.
SaveFails ==
    /\ pc = "to_csv"
    /\ output' \in {NoFile, PartialFile}
    /\ Exit("write_error")
    /\ UNCHANGED <<filter_vars, files, idx, merged_data, total_rows, merged_df,
                   exact_duplicates, duplicate_counts>>

Next ==
    \/ ValidateFiles
    \/ ProcessFile
    \/ ConcatFrames
    \/ RemoveExactDuplicates
    \/ AggregateLogicalDuplicates
    \/ SortRows
    \/ SaveOutput
    \/ SaveFails

Spec == Init /\ [][Next]_vars

---------------------------------------------------------------------------
(* A whole run as a function of the input files, for comparing runs *)

RECURSIVE LoopOver(_, _)
\* The for loop over the files fs, frames being merged_data so far.
LoopOver(fs, frames) ==
    IF fs = <<>> THEN [error |-> "", frames |-> frames]
    ELSE LET r == ProcessOne(Head(fs))
         IN  CASE r.step = "append" -> LoopOver(Tail(fs), Append(frames, r.df))
               [] r.step = "skip"   -> LoopOver(Tail(fs), frames)
               [] r.step = "exit"   -> [error |-> r.error, frames |-> frames]

\* main(), when to_csv does not fail: the error that ends the run ("" for
\* none), the output file, and the number of logical duplicate rows found.
MergeCsvFiles(fs) ==
    LET loop  == LoopOver(fs, <<>>)
        dedup == RemoveExact(Concat(loop.frames))
    IN  IF \E i \in 1..Len(fs) : ~IsFile(fs[i])
        THEN [error |-> "missing_file", output |-> NoFile, duplicate_counts |-> 0]
        ELSE IF loop.error /= ""
        THEN [error |-> loop.error, output |-> NoFile, duplicate_counts |-> 0]
        ELSE IF loop.frames = <<>>
        THEN [error |-> "no_data", output |-> NoFile, duplicate_counts |-> 0]
        ELSE [error |-> "",
              output |-> ToCsv(SortValues(AggregateLogical(dedup))),
              duplicate_counts |-> Cardinality(DuplicatedAny(dedup, grouping_columns))]

---------------------------------------------------------------------------
(* What the properties below speak of *)

\* The run has ended: exit code 0 (done) or sys.exit(1) (exit).
Terminal == pc \in {"done", "exit"}

\* The rows of every source that passed validate_columns, counts coerced.
InputRows == Concat(merged_data)

\* The table in the output file: missing values for empty cells, integers for
\* the counts.
OutputFrame ==
    [i \in 1..Len(output.rows) |->
        [c \in Range(REQUIRED_COLUMNS) |->
            IF c = "Offence count" THEN IntOfText[output.rows[i][c]]
            ELSE ReadCell(output.rows[i][c])]]

KeyOf(r) == Cells(r, grouping_columns)

RowsWithKey(df, k) == {i \in 1..Len(df) : KeyOf(df[i]) = k}

RECURSIVE SumOver(_, _)
\* The sum of 'Offence count' over the rows of df whose index is in I.
SumOver(df, I) ==
    IF I = {} THEN 0
    ELSE LET i == CHOOSE x \in I : TRUE
         IN  df[i]["Offence count"] + SumOver(df, I \ {i})

TotalCount(df) == SumOver(df, 1..Len(df))

---------------------------------------------------------------------------
(* C1: whenever the merge writes an output, no two rows of the output table
   have the same six-field identity key (Reported Date, Suburb - Incident,
   Postcode - Incident, Offence Level 1/2/3 Description). *)
C1_KeyUniqueness ==
    pc = "done" =>
        \A i, j \in 1..Len(output.rows) :
            i /= j => Cells(output.rows[i], grouping_columns)
                          /= Cells(output.rows[j], grouping_columns)

\* A run that found logical duplicates, aggregated them and wrote rows.
C1_Witness ==
    /\ pc = "done"
    /\ duplicate_counts > 0
    /\ Len(InputRows) > Len(output.rows)
    /\ Len(output.rows) > 0

(* C2: conservation: the sum of Offence count over the rows of the output
   equals the sum of the coerced Offence count over all input rows that passed
   field validation.  Stated for the runs that removed no exact duplicate row,
   where every input row is still in the working collection when the
   aggregation starts. *)
C2_Conservation ==
    (pc = "done" /\ exact_duplicates = 0) =>
        TotalCount(OutputFrame) = TotalCount(InputRows)

(* C3: exact-duplicate elimination: a row repeated verbatim (all seven
   fields) in two sources is in the output once, with its single count; two
   rows with the same key and different counts give one output row whose
   count is their sum. *)
C3_ExactDuplicateElimination ==
    pc = "done" =>
        \A k \in {KeyOf(InputRows[i]) : i \in 1..Len(InputRows)} :
            LET I == RowsWithKey(InputRows, k)
                O == RowsWithKey(OutputFrame, k)
            IN  /\ ( /\ Len(merged_data) = 2
                     /\ \E a \in 1..Len(merged_data[1]), b \in 1..Len(merged_data[2]) :
                            /\ merged_data[1][a] = merged_data[2][b]
                            /\ KeyOf(merged_data[1][a]) = k
                            /\ \A i \in I : InputRows[i] = merged_data[1][a] )
                   => /\ Cardinality(O) = 1
                      /\ \A o \in O, i \in I :
                             OutputFrame[o]["Offence count"] = InputRows[i]["Offence count"]
                /\ ( /\ Cardinality(I) = 2
                     /\ \E a, b \in I :
                            InputRows[a]["Offence count"] /= InputRows[b]["Offence count"] )
                   => /\ Cardinality(O) = 1
                      /\ \A o \in O :
                             OutputFrame[o]["Offence count"] = SumOver(InputRows, I)

(* C4: idempotence: a merge whose single source is the output of a
   successful merge writes the same table again (same rows, same counts,
   same order) and finds no logical duplicates. *)
C4_Idempotence ==
    pc = "done" =>
        LET again == MergeCsvFiles(<<output>>)
        IN  /\ again.error = ""
            /\ again.output = output
            /\ again.duplicate_counts = 0

\* An output of several rows, two of which tie on the sort columns.
C4_Witness ==
    /\ pc = "done"
    /\ Len(output.rows) >= 2
    /\ \E i, j \in 1..Len(output.rows) :
           /\ i /= j
           /\ Cells(output.rows[i], sort_columns) = Cells(output.rows[j], sort_columns)

\* The files in another order.
Permuted(fs, p) == [i \in 1..Len(fs) |-> fs[p[i]]]

(* C5 as stated: every permutation of the sources gives the same output
   table, as a sequence of rows. *)
C5_OrderIndependence ==
    pc = "done" =>
        \A p \in Permutations(1..Len(files)) :
            MergeCsvFiles(Permuted(files, p)).output = output

(* C5, amended: every permutation of the sources gives the same rows with the
   same counts, and the same sequence of (Reported Date, Suburb - Incident);
   rows that tie on these two columns may change places, and do not when
   logical duplicates were aggregated. *)
C5_OrderIndependenceUpToTies ==
    pc = "done" =>
        \A p \in Permutations(1..Len(files)) :
            LET other == MergeCsvFiles(Permuted(files, p))
            IN  /\ other.error = ""
                /\ Len(other.output.rows) = Len(output.rows)
                /\ Range(other.output.rows) = Range(output.rows)
                /\ \A i \in 1..Len(output.rows) :
                       Cells(other.output.rows[i], sort_columns)
                           = Cells(output.rows[i], sort_columns)
                /\ duplicate_counts > 0 => other.output = output

\* Two sources, each with a row, the two rows tied on the sort columns and
\* different in the postcode: no logical duplicates.
C5_Witness ==
    /\ pc = "done"
    /\ Len(merged_data) = 2
    /\ Len(merged_data[1]) = 1
    /\ Len(merged_data[2]) = 1
    /\ duplicate_counts = 0
    /\ Len(output.rows) = 2
    /\ Cells(output.rows[1], sort_columns) = Cells(output.rows[2], sort_columns)
    /\ MergeCsvFiles(Permuted(files, <<2, 1>>)).output /= output

---------------------------------------------------------------------------
(* Source errors *)

\* File f is a table without one of the required columns.
LacksColumn(f) == f.kind = "table" /\ MissingCols(f.columns) /= {}

\* File f is a table with every required column and no infinite count: the
\* loop reads it and appends it to merged_data.
ValidTable(f) ==
    /\ f.kind = "table"
    /\ ~LacksColumn(f)
    /\ \A i \in 1..Len(f.rows) : f.rows[i]["Offence count"] /= "inf"

\* The files the loop has appended to merged_data, in order: merged_data[k]
\* was read from AppendedFiles[k].
AppendedFiles ==
    LET done == IF pc = "exit" /\ idx <= Len(files) THEN idx - 1
                ELSE Min(idx - 1, Len(files))
    IN  SelectSeq(SubSeq(files, 1, done), ValidTable)

\* The loop has dealt with file i.
Handled(i) ==
    /\ pc /= "validate_files"
    /\ error /= "missing_file"
    /\ idx > i \/ (idx = i /\ pc /= "loop")

\* The files of fs that satisfy Keep, in order.
Only(fs, Keep(_)) == SelectSeq(fs, Keep)

(* C6 as stated: a source without a required column is skipped and the merge
   goes on: with such a source beside valid sources, one of them with rows,
   the run writes the output built from the valid sources and succeeds. *)
C6_MissingColumnSkipped ==
    ( /\ Terminal
      /\ error /= "write_error"
      /\ \E i \in 1..Len(files) : LacksColumn(files[i])
      /\ \A i \in 1..Len(files) : LacksColumn(files[i]) \/ ValidTable(files[i])
      /\ \E i \in 1..Len(files) : ValidTable(files[i]) /\ Len(files[i].rows) > 0 )
    => /\ pc = "done"
       /\ output = MergeCsvFiles(Only(files, ValidTable)).output

(* C6, amended: a source without a required column ends the run: when the
   loop comes to it the merge reports the missing columns and exits non-zero,
   no later source is read and no output is written, whatever the other
   sources hold. *)
C6_MissingColumnFatal ==
    \A i \in 1..Len(files) :
        (LacksColumn(files[i]) /\ Handled(i))
        => /\ pc = "exit"
           /\ error = "missing_column"
           /\ idx = i
           /\ Len(merged_data) < i
           /\ output = NoFile

\* The run has ended on a source without a required column, beside a valid
\* source with rows.
C6_Witness ==
    /\ pc = "exit"
    /\ error = "missing_column"
    /\ \E j \in 1..Len(files) : ValidTable(files[j]) /\ Len(files[j].rows) > 0

(* C7 as stated: a source that cannot be read or parsed is only logged: the
   later sources are processed and the merge succeeds when at least one
   source contributes rows. *)
C7_SourceErrorContinues ==
    ( /\ Terminal
      /\ error /= "write_error"
      /\ \E i \in 1..Len(files) : files[i].kind \in {"garbled", "unreadable"}
      /\ \A i \in 1..Len(files) :
             files[i].kind \in {"garbled", "unreadable"} \/ ValidTable(files[i])
      /\ \E i \in 1..Len(files) : ValidTable(files[i]) /\ Len(files[i].rows) > 0 )
    => pc = "done"

(* C7, amended: a source that cannot be parsed or read ends the run: when the
   loop comes to it the merge logs the error and exits non-zero, no later
   source is read and no output is written.  Only an empty source (no header,
   no data) is logged and skipped: the loop goes on, and the merge writes the
   output of the other sources when at least one of them was read as a table. *)
C7_OnlyEmptySourceSkipped ==
    /\ \A i \in 1..Len(files) :
           (files[i].kind \in {"garbled", "unreadable"} /\ Handled(i))
           => /\ pc = "exit"
              /\ error = (IF files[i].kind = "garbled" THEN "parse_error"
                          ELSE "unexpected_error")
              /\ idx = i
              /\ output = NoFile
    /\ (pc = "exit" /\ error \in {"parse_error", "unexpected_error", "missing_column"})
           => files[idx].kind /= "empty"
    /\ ( /\ Terminal
         /\ \A i \in 1..Len(files) : files[i].kind = "empty" \/ ValidTable(files[i])
         /\ \E i \in 1..Len(files) : ValidTable(files[i]) )
       => \/ pc = "exit" /\ error = "write_error"
          \/ pc = "done" /\ output = MergeCsvFiles(Only(files, ValidTable)).output

\* The run has ended on a source that does not parse, after a source with
\* rows was read.
C7_Witness ==
    /\ pc = "exit"
    /\ error = "parse_error"
    /\ idx = 2
    /\ Len(merged_data) = 1
    /\ Len(merged_data[1]) > 0

\* An empty source was skipped and the merge went on to write the rows of
\* the other source.
C7_SkipWitness ==
    /\ pc = "done"
    /\ \E i \in 1..Len(files) : files[i].kind = "empty"
    /\ Len(output.rows) > 0

---------------------------------------------------------------------------
(* Data error and the write of the output *)

(* C8: when no usable row remains after all sources have been processed, the
   merge aborts with a non-zero outcome and writes no output.  A single
   source with a header and no data rows is such a run. *)
C8_NoDataError ==
    (Terminal /\ error /= "write_error" /\ Len(InputRows) = 0)
        => (pc = "exit" /\ output = NoFile)

\* The errors that end a run before to_csv is called.
FatalErrors ==
    {"missing_file", "missing_column", "parse_error", "unexpected_error", "no_data"}

(* C9: all or nothing: a run that ends in a fatal error (missing input file,
   missing column, parse error, unexpected error, no data to merge) has
   written nothing; the output is written only after every source has been
   processed and the rows concatenated, deduplicated, aggregated and sorted,
   and what a successful run leaves is that table. *)
C9_AllOrNothing ==
    /\ (pc = "exit" /\ error \in FatalErrors) => output = NoFile
    /\ pc \notin {"done", "exit"} => output = NoFile
    /\ output /= NoFile =>
           /\ idx = Len(files) + 1
           /\ \A i \in 1..Len(files) : files[i].kind = "empty" \/ ValidTable(files[i])
           /\ merged_df = SortValues(AggregateLogical(RemoveExact(Concat(merged_data))))
    /\ pc = "done" => output = ToCsv(merged_df)

\* The run has ended on a source without a required column after a source
\* with rows was read: rows are in memory and nothing is written.
C9_Witness ==
    /\ pc = "exit"
    /\ error = "missing_column"
    /\ idx = 2
    /\ total_rows > 0
    /\ output = NoFile

---------------------------------------------------------------------------
(* Count coercion *)

\* The texts in 'Offence count' of the files read into merged_data:
\* RawCounts[k][i] is the text that merged_data[k][i] was converted from.
RawCounts ==
    LET read == AppendedFiles
    IN  [k \in 1..Len(read) |->
            [i \in 1..Len(read[k].rows) |-> read[k].rows[i]["Offence count"]]]

\* Text t is the decimal text of a non-negative integer.
NonNegativeIntText(t) == t \in {IntText[n] : n \in 0..MaxCount}

(* C10 as stated: a count that does not parse as a non-negative integer
   (text, missing, negative, not an integer) becomes zero and the row is
   kept; a count that parses as a non-negative integer is unchanged; every
   count of the working collection and of the output is a non-negative
   integer. *)
C10_CountCoercion ==
    LET raw == RawCounts
    IN  /\ Len(raw) = Len(merged_data)
        /\ \A k \in 1..Len(merged_data) :
               /\ Len(merged_data[k]) = Len(raw[k])
               /\ \A i \in 1..Len(merged_data[k]) :
                      merged_data[k][i]["Offence count"] =
                          IF NonNegativeIntText(raw[k][i]) THEN IntOfText[raw[k][i]] ELSE 0
        /\ \A i \in 1..Len(merged_df) : merged_df[i]["Offence count"] \in Nat
        /\ \A i \in 1..Len(output.rows) :
               NonNegativeIntText(output.rows[i]["Offence count"])

\* What the conversion makes of the count texts of the model's files.
ConvertedCount(t) ==
    CASE t = "3"    -> 3
      [] t = "5"    -> 5
      [] t = "-2"   -> -2
      [] t = "2.5"  -> 2
      [] t = "abc"  -> 0
      [] t = ""     -> 0

(* C10, amended: a count that denotes no number (text, missing) becomes zero
   and the row is kept; a count that denotes a finite number is converted to
   an integer by cutting off its fraction: a negative number stays negative,
   a non-integer number loses its fraction, an integer (non-negative or not)
   is unchanged; an infinite count ends the run with the unexpected-error
   exit.  Every count of the working collection and of the output is an
   integer. *)
C10_CountConversion ==
    LET raw == RawCounts
    IN  /\ Len(raw) = Len(merged_data)
        /\ \A k \in 1..Len(merged_data) :
               /\ Len(merged_data[k]) = Len(raw[k])
               /\ \A i \in 1..Len(merged_data[k]) :
                      merged_data[k][i]["Offence count"] = ConvertedCount(raw[k][i])
        /\ \A i \in 1..Len(files) :
               ( /\ Handled(i)
                 /\ files[i].kind = "table"
                 /\ ~LacksColumn(files[i])
                 /\ \E j \in 1..Len(files[i].rows) :
                        files[i].rows[j]["Offence count"] = "inf" )
               => pc = "exit" /\ error = "unexpected_error" /\ idx = i
        /\ \A i \in 1..Len(merged_df) : merged_df[i]["Offence count"] \in Int
        /\ \A i \in 1..Len(output.rows) : output.rows[i]["Offence count"] \in IntTexts

\* A source with a count that is text and a count that is negative was
\* read, both rows kept, and the output written.
C10_Witness ==
    /\ pc = "done"
    /\ \E k \in 1..Len(merged_data) :
           \E i, j \in 1..Len(merged_data[k]) :
               /\ RawCounts[k][i] = "abc"
               /\ merged_data[k][i]["Offence count"] = 0
               /\ RawCounts[k][j] = "-2"
               /\ merged_data[k][j]["Offence count"] = -2
    /\ \E i \in 1..Len(output.rows) : output.rows[i]["Offence count"] = "-2"

---------------------------------------------------------------------------
(* Empty sources *)

\* File f holds no rows: it has no bytes, or a header line only.
EmptySource(f) == f.kind = "empty" \/ (f.kind = "table" /\ f.rows = <<>>)

\* The list fs without its i-th file.
Without(fs, i) == SubSeq(fs, 1, i - 1) \o SubSeq(fs, i + 1, Len(fs))

\* Every file of fs but the i-th is empty or a valid table, and one of them
\* has rows.
OthersContribute(fs, i) ==
    /\ \A j \in 1..Len(fs) :
           j /= i => (fs[j].kind = "empty" \/ ValidTable(fs[j]))
    /\ \E j \in 1..Len(fs) : j /= i /\ ValidTable(fs[j]) /\ Len(fs[j].rows) > 0

(* C11 as stated: an empty source (no bytes, or a header only, whatever the
   header) beside sources that contribute rows does not abort the run, and
   the output is the output of the merge of the list without it. *)
C11_EmptySourceTolerated ==
    (Terminal /\ error /= "write_error") =>
        \A i \in 1..Len(files) :
            (EmptySource(files[i]) /\ OthersContribute(files, i))
            => /\ pc = "done"
               /\ output = MergeCsvFiles(Without(files, i)).output

(* C11, amended: a source with no bytes, or with a header that names every
   required column and no rows, beside sources that contribute rows does not
   abort the run, and the output is the output of the merge of the list
   without it.  A header-only source whose header lacks a required column
   ends the run like any source without that column. *)
C11_EmptySourceWithHeaderTolerated ==
    (Terminal /\ error /= "write_error") =>
        \A i \in 1..Len(files) :
            (EmptySource(files[i]) /\ OthersContribute(files, i))
            => IF LacksColumn(files[i])
               THEN pc = "exit" /\ error = "missing_column" /\ idx = i /\ output = NoFile
               ELSE /\ pc = "done"
                    /\ output = MergeCsvFiles(Without(files, i)).output
                    /\ MergeCsvFiles(Without(files, i)).error = ""

\* A source with no bytes and a header-only source were merged with a source
\* that has rows, and the rows were written.
C11_Witness ==
    /\ pc = "done"
    /\ \E i, j \in 1..Len(files) :
           /\ files[i].kind = "empty"
           /\ files[j].kind = "table" /\ files[j].rows = <<>>
           /\ OthersContribute(files, i)
           /\ OthersContribute(files, j)
    /\ Len(output.rows) > 0

---------------------------------------------------------------------------
(* Order of the output *)

\* pd.to_datetime(text, format='%d/%m/%Y'): the calendar date that a
\* 'Reported Date' text denotes, as <<year, month, day>>.
ParseDate(s) ==
    LET c == Codepoints(s)
        digit(i) == c[i] - 48
    IN  << 1000 * digit(7) + 100 * digit(8) + 10 * digit(9) + digit(10),
           10 * digit(4) + digit(5),
           10 * digit(1) + digit(2) >>

\* Calendar date a is earlier than calendar date b.
DateLess(a, b) == SeqLess(a, b)

(* C12: the written output is sorted ascending by (reported date, suburb):
   of two consecutive output rows the first one's calendar reported date is
   not later than the second one's, and on equal dates its suburb is not
   greater.  A missing suburb is compared with nothing. *)
C12_SortedByCalendarDate ==
    pc = "done" =>
        \A i \in 1..(Len(output.rows) - 1) :
            LET a == output.rows[i]
                b == output.rows[i + 1]
                da == ParseDate(a["Reported Date"])
                db == ParseDate(b["Reported Date"])
            IN  /\ ~DateLess(db, da)
                /\ ( /\ da = db
                     /\ ReadCell(a["Suburb - Incident"]) /= NaN
                     /\ ReadCell(b["Suburb - Incident"]) /= NaN )
                   => ~StrLess(b["Suburb - Incident"], a["Suburb - Incident"])

---------------------------------------------------------------------------
(* Aggregation *)

\* The working collection after the exact duplicate rows are removed.
WorkingRows == RemoveExact(InputRows)

(* C13: logical-duplicate aggregation: every six-field key of the working
   collection after exact-duplicate removal, keys with a missing field
   included, is the key of exactly one output row, and the count of that row
   is the sum of the counts of the remaining rows with the key; for a key
   with one remaining row that is the row's own count, whether or not other
   keys are aggregated in the run. *)
C13_LogicalDuplicateAggregation ==
    pc = "done" =>
        LET rows == WorkingRows
            out  == OutputFrame
        IN  \A k \in {KeyOf(rows[i]) : i \in 1..Len(rows)} :
                LET O == RowsWithKey(out, k)
                IN  /\ Cardinality(O) = 1
                    /\ \A o \in O :
                           out[o]["Offence count"] = SumOver(rows, RowsWithKey(rows, k))

---------------------------------------------------------------------------
(* filter_crime_data.py: reading and filtering one chunk *)

\* The rows of a chunk.  The source reads chunks of 10 ** 6 rows; the model
\* reads chunks of this many, so that a file of the model spans chunks.
chunksize == 2

\* The chunk of file f after `start` rows were read: a DataFrame with the
\* columns of the file.  A file with a header and no rows gives one chunk
\* with no rows.  The cells of the model's files are read without
\* dtype=str to the values that to_csv writes back as the same text.
Chunk(f, start) ==
    [columns |-> f.columns,
     rows    |-> SubSeq(ReadCsv(f), start + 1, Min(start + chunksize, Len(f.rows)))]

\* The chunk that starts after `start` rows is the last chunk of file f.
LastChunk(f, start) == start + chunksize >= Len(f.rows)

\* Series.isin(values): a missing value is in no list.
IsIn(cell, values) == cell /= NaN /\ cell \in Range(values)

\* chunk[chunk['Suburb - Incident'].isin(suburbs)]
FilterRows(rows, subs) ==
    LET Keep(r) == IsIn(r["Suburb - Incident"], subs)
    IN  SelectSeq(rows, Keep)

\* filtered_chunk['Offence count'] = pd.to_numeric(...).fillna(0).astype(int)
ConvertCounts(rows) ==
    [i \in 1..Len(rows) |->
        [c \in DOMAIN rows[i] |->
            IF c = "Offence count" THEN AsTypeInt(CountValue(rows[i][c]))
            ELSE rows[i][c]]]

\* A variant that goes on to the next file when a chunk lacks a column.
FilterOne_MissingColumnSkips(f, start, subs) ==
    LET raised == ReadRaises(f)
        chunk  == Chunk(f, start)
        kept   == FilterRows(chunk.rows, subs)
        none   == [columns |-> {}, rows |-> <<>>]
    IN  CASE raised = "EmptyDataError" ->
               [step |-> "skip", error |-> "", df |-> none]
          [] raised = "ParserError" ->
               [step |-> "exit", error |-> "parse_error", df |-> none]
          [] raised = "Exception" ->
               [step |-> "exit", error |-> "unexpected_error", df |-> none]
          [] OTHER ->
               IF MissingCols(chunk.columns) /= {}
               THEN [step |-> "skip", error |-> "", df |-> none]
               ELSE IF kept = <<>>
               THEN [step |-> "next", error |-> "", df |-> none]
               ELSE IF ConvertRaises(kept)
               THEN [step |-> "exit", error |-> "unexpected_error", df |-> none]
               ELSE [step |-> "append", error |-> "",
                     df |-> [columns |-> chunk.columns, rows |-> ConvertCounts(kept)]]

\* A variant that keeps the rows whose suburb is not in the list.
FilterOne_KeepsOthers(f, start, subs) ==
    LET raised == ReadRaises(f)
        chunk  == Chunk(f, start)
        Other(r) == ~IsIn(r["Suburb - Incident"], subs)
        kept   == SelectSeq(chunk.rows, Other)
        none   == [columns |-> {}, rows |-> <<>>]
    IN  CASE raised = "EmptyDataError" ->
               [step |-> "skip", error |-> "", df |-> none]
          [] raised = "ParserError" ->
               [step |-> "exit", error |-> "parse_error", df |-> none]
          [] raised = "Exception" ->
               [step |-> "exit", error |-> "unexpected_error", df |-> none]
          [] OTHER ->
               IF MissingCols(chunk.columns) /= {}
               THEN [step |-> "exit", error |-> "missing_column", df |-> none]
               ELSE IF kept = <<>>
               THEN [step |-> "next", error |-> "", df |-> none]
               ELSE IF ConvertRaises(kept)
               THEN [step |-> "exit", error |-> "unexpected_error", df |-> none]
               ELSE [step |-> "append", error |-> "",
                     df |-> [columns |-> chunk.columns, rows |-> ConvertCounts(kept)]]

\* One pass of "for chunk in pd.read_csv(file, chunksize=chunksize)" over the
\* chunk of f that starts after `start` rows:
\*   step = "append": df is appended to filtered_chunks
\*   step = "next":   no row of the chunk matches, nothing is appended
\*   step = "skip":   the file is skipped with a warning (EmptyDataError)
\*   step = "exit":   sys.exit(1) with the error named
FilterOne(f, start, subs) ==
    LET raised == ReadRaises(f)
        chunk  == Chunk(f, start)
        kept   == FilterRows(chunk.rows, subs)
        none   == [columns |-> {}, rows |-> <<>>]
    IN  CASE raised = "EmptyDataError" ->
               [step |-> "skip", error |-> "", df |-> none]
          [] raised = "ParserError" ->
               [step |-> "exit", error |-> "parse_error", df |-> none]
          [] raised = "Exception" ->
               [step |-> "exit", error |-> "unexpected_error", df |-> none]
          [] OTHER ->
               IF MissingCols(chunk.columns) /= {}
               THEN [step |-> "exit", error |-> "missing_column", df |-> none]
               ELSE IF kept = <<>>
               THEN [step |-> "next", error |-> "", df |-> none]
               ELSE IF ConvertRaises(kept)
               THEN [step |-> "exit", error |-> "unexpected_error", df |-> none]
               ELSE [step |-> "append", error |-> "",
                     df |-> [columns |-> chunk.columns, rows |-> ConvertCounts(kept)]]

\* pd.concat(filtered_chunks, ignore_index=True): the columns of all the
\* chunks, a missing value where a chunk has no such column.
ConcatChunks(frames) ==
    LET cols == UNION {frames[k].columns : k \in 1..Len(frames)}
        rows == Concat([k \in 1..Len(frames) |-> frames[k].rows])
    IN  [columns |-> cols,
         rows    |-> [i \in 1..Len(rows) |->
                         [c \in cols |-> IF c \in DOMAIN rows[i] THEN rows[i][c] ELSE NaN]]]

\* pd.DataFrame(columns=[...the required columns...])
EmptyFrame == [columns |-> Range(REQUIRED_COLUMNS), rows |-> <<>>]

\* df.to_csv(output_file, index=False) of save_to_csv
FrameToCsv(df) ==
    Table(df.columns,
          [i \in 1..Len(df.rows) |->
              [c \in df.columns |->
                  IF c = "Offence count" THEN ToString(df.rows[i][c])
                  ELSE IF df.rows[i][c] = NaN THEN "" ELSE df.rows[i][c]]])

---------------------------------------------------------------------------
(* filter_crime_data.py: the inputs of the model *)

\* The rows of the filter's files: suburbs X and Y and a missing suburb, two
\* dates, counts that are integers, text, not an integer, an infinity.
FilterRowPool ==
    { Row("01/02/2024", "X", "5000", "3"),
      Row("01/02/2024", "X", "5000", "abc"),
      Row("01/02/2024", "X", "5000", "inf"),
      Row("02/01/2024", "X", "5000", "2.5"),
      Row("01/02/2024", "Y", "5000", "3"),
      Row("02/01/2024", "Y", "5001", "5"),
      Row("01/02/2024", "", "5000", "5") }

\* args.suburbs (nargs='+'): Z is the suburb of no row.
SuburbLists == { <<"X">>, <<"X", "Y">>, <<"Z">> }

\* The files that hold exactly n rows.
FilterFilesOf(n) ==
    (IF n = 0 THEN {MissingFile, EmptyFile, GarbledFile, LockedFile} ELSE {})
        \cup {Table(Range(REQUIRED_COLUMNS), rows) : rows \in [1..n -> FilterRowPool]}
        \cup (IF n <= MaxVariantRows
              THEN {Table(h, [i \in 1..n |->
                                 Restrict(Row("01/02/2024", "X", "5000", "3"), h)]) :
                       h \in HeaderPool}
              ELSE {})

FilterFileTable == [n \in 0..MaxSize |-> FilterFilesOf(n)]

RECURSIVE FilterInputsOf(_)
\* The lists of files with the given numbers of rows.
FilterInputsOf(sizes) ==
    IF sizes = <<>> THEN {<<>>}
    ELSE {<<f>> \o rest : f \in FilterFileTable[Head(sizes)],
                          rest \in FilterInputsOf(Tail(sizes))}

---------------------------------------------------------------------------
(* main, filter_crime_data and save_to_csv of filter_crime_data.py, step by
   step *)

FilterInit ==
    /\ \E sizes \in SizeLists : files \in FilterInputsOf(sizes)
    /\ suburbs \in SuburbLists
    /\ pc = "filter_validate_files"
    /\ idx = 1
    /\ chunk_start = 0
    /\ filtered_chunks = <<>>
    /\ total_filtered_rows = 0
    /\ filtered_data = [columns |-> {}, rows |-> <<>>]
    /\ output = NoFile
    /\ error = ""
    /\ merged_data = <<>>
    /\ total_rows = 0
    /\ merged_df = <<>>
    /\ exact_duplicates = 0
    /\ duplicate_counts = 0

\* A variant that goes on with the files that exist.
FilterValidateFiles_IgnoresMissing ==
    /\ pc = "filter_validate_files"
    /\ pc' = "filter_loop"
    /\ UNCHANGED <<merge_vars, filter_vars, files, idx, output, error>>

\* validate_files(args.input)
FilterValidateFiles ==
    /\ pc = "filter_validate_files"
    /\ IF \E i \in 1..Len(files) : ~IsFile(files[i])
       THEN Exit("missing_file")
       ELSE pc' = "filter_loop" /\ error' = error
    /\ UNCHANGED <<merge_vars, filter_vars, files, idx, output>>

\* One pass of "for chunk in pd.read_csv(file, chunksize=chunksize)", and the
\* step to the next file after the last chunk of a file.
FilterChunk ==
    /\ pc = "filter_loop"
    /\ idx <= Len(files)
    /\ LET f == files[idx]
           r == FilterOne(f, chunk_start, suburbs)
           last == LastChunk(f, chunk_start)
       IN  /\ CASE r.step = "append" ->
                     /\ filtered_chunks' = Append(filtered_chunks, r.df)
                     /\ total_filtered_rows' = total_filtered_rows + Len(r.df.rows)
                     /\ UNCHANGED <<pc, error>>
                [] r.step \in {"next", "skip"} ->
                     UNCHANGED <<pc, error, filtered_chunks, total_filtered_rows>>
                [] r.step = "exit" ->
                     /\ Exit(r.error)
                     /\ UNCHANGED <<filtered_chunks, total_filtered_rows>>
           /\ IF r.step = "exit" THEN UNCHANGED <<idx, chunk_start>>
              ELSE IF r.step = "skip" \/ last
              THEN idx' = idx + 1 /\ chunk_start' = 0
              ELSE idx' = idx /\ chunk_start' = chunk_start + chunksize
    /\ UNCHANGED <<merge_vars, files, suburbs, filtered_data, output>>

\* After the loop: filter_crime_data returns the concatenation, or an empty
\* DataFrame with the required columns.
FilterReturn ==
    /\ pc = "filter_loop"
    /\ idx > Len(files)
    /\ filtered_data' = IF filtered_chunks /= <<>> THEN ConcatChunks(filtered_chunks)
                        ELSE EmptyFrame
    /\ pc' = "save_to_csv"
    /\ UNCHANGED <<merge_vars, files, idx, suburbs, chunk_start, filtered_chunks,
                   total_filtered_rows, output, error>>

\* save_to_csv: sort_values, then to_csv returns
SaveToCsv ==
    /\ pc = "save_to_csv"
    /\ filtered_data' = [filtered_data EXCEPT !.rows = SortValues(filtered_data.rows)]
    /\ output' = FrameToCsv(filtered_data')
    /\ pc' = "done"
    /\ UNCHANGED <<merge_vars, files, idx, suburbs, chunk_start, filtered_chunks,
                   total_filtered_rows, error>>

\* save_to_csv: sort_values, then to_csv raises: the path cannot be opened,
\* or the write breaks off and leaves part of the table behind.
SaveToCsvFails ==
    /\ pc = "save_to_csv"
    /\ filtered_data' = [filtered_data EXCEPT !.rows = SortValues(filtered_data.rows)]
    /\ output' \in {NoFile, PartialFile}
    /\ Exit("write_error")
    /\ UNCHANGED <<merge_vars, files, idx, suburbs, chunk_start, filtered_chunks,
                   total_filtered_rows>>

FilterNext ==
    \/ FilterValidateFiles
    \/ FilterChunk
    \/ FilterReturn
    \/ SaveToCsv
    \/ SaveToCsvFails

FilterSpec == FilterInit /\ [][FilterNext]_vars

---------------------------------------------------------------------------
(* What the properties of the filter speak of *)

\* The loop of filter_crime_data has dealt with file i.
FilterHandled(i) ==
    /\ pc /= "filter_validate_files"
    /\ error /= "missing_file"
    /\ idx > i \/ (idx = i /\ pc /= "filter_loop")

(* C14: in the filtering utility a missing required column in any input file
   ends the whole run at once: filter_crime_data exits non-zero at the first
   chunk of the file, no later file is read, save_to_csv is not reached and
   no output is written, also when earlier files have contributed matching
   rows. *)
C14_FilterMissingColumnFatal ==
    \A i \in 1..Len(files) :
        (LacksColumn(files[i]) /\ FilterHandled(i))
        => /\ pc = "exit"
           /\ error = "missing_column"
           /\ idx = i
           /\ chunk_start = 0
           /\ filtered_data = [columns |-> {}, rows |-> <<>>]
           /\ output = NoFile

\* The run has ended on a file without a required column, after an earlier
\* file contributed matching rows and with a later file still unread.
C14_Witness ==
    /\ pc = "exit"
    /\ error = "missing_column"
    /\ LacksColumn(files[idx])
    /\ filtered_chunks /= <<>>
    /\ total_filtered_rows > 0
    /\ idx < Len(files)
    /\ output = NoFile

\* The input rows, over all files in order, whose 'Suburb - Incident' is in
\* the requested list: the texts of the seven required columns.
MatchingRows ==
    LET Match(r) == /\ r["Suburb - Incident"] \notin NaValues
                    /\ \E k \in 1..Len(suburbs) : suburbs[k] = r["Suburb - Incident"]
        RowsOf(f) == IF f.kind = "table" /\ ~LacksColumn(f)
                     THEN [i \in 1..Len(f.rows) |->
                              [c \in Range(REQUIRED_COLUMNS) |-> f.rows[i][c]]]
                     ELSE <<>>
    IN  Concat([i \in 1..Len(files) |-> SelectSeq(RowsOf(files[i]), Match)])

\* Row r of a DataFrame is the input row `text`: the same cells, a missing
\* value for an empty cell, the count converted to an integer.
SameRow(r, text) ==
    \A c \in Range(REQUIRED_COLUMNS) :
        r[c] = IF c = "Offence count" THEN ConvertedCount(text[c])
               ELSE ReadCell(text[c])

(* C15: the table filter_crime_data returns holds exactly the input rows,
   over all files and chunks, in their order and as often as they occur,
   whose Suburb - Incident is in the requested list; when no row matches it
   is an empty table with the seven required columns, and the run writes a
   header-only output and ends successfully. *)
C15_FilterResult ==
    LET want == MatchingRows
    IN  /\ pc = "save_to_csv" =>
               /\ Len(filtered_data.rows) = Len(want)
               /\ \A i \in 1..Len(want) : SameRow(filtered_data.rows[i], want[i])
               /\ want = <<>> => filtered_data = EmptyFrame
        /\ pc = "done" =>
               /\ Len(output.rows) = Len(want)
               /\ \A i \in 1..Len(output.rows) :
                      \E j \in 1..Len(want) :
                          \A c \in Range(REQUIRED_COLUMNS) \ {"Offence count"} :
                              output.rows[i][c] = want[j][c]
               /\ want = <<>> =>
                      /\ error = ""
                      /\ output = Table(Range(REQUIRED_COLUMNS), <<>>)
        /\ (pc = "exit" /\ want = <<>>) =>
               \/ error = "write_error"
               \/ error = "missing_file"
               \/ /\ error \in {"parse_error", "unexpected_error", "missing_column"}
                  /\ ~ValidTable(files[idx])

\* A file that spans two chunks gave a matching row from each chunk, the
\* same row twice, and a row of another suburb was left out.
C15_Witness ==
    /\ pc = "done"
    /\ Len(filtered_chunks) >= 2
    /\ \E k \in 1..Len(files) : Len(files[k].rows) > chunksize
    /\ \E i, j \in 1..Len(filtered_data.rows) :
           i /= j /\ filtered_data.rows[i] = filtered_data.rows[j]
    /\ Len(output.rows) = 2
    /\ \E k \in 1..Len(files) : \E i \in 1..Len(files[k].rows) :
           files[k].rows[i]["Suburb - Incident"] = "Y"

\* No row of the files is of a requested suburb: a header-only output.
C15_NoMatchWitness ==
    /\ pc = "done"
    /\ \E k \in 1..Len(files) : Len(files[k].rows) > 0
    /\ output = Table(Range(REQUIRED_COLUMNS), <<>>)

---------------------------------------------------------------------------
(* The two command-line tools: a run of either *)

ToolsInit == Init \/ FilterInit

ToolsNext == Next \/ FilterNext

ToolsSpec == ToolsInit /\ [][ToolsNext]_vars

(* C16: the existence check precedes all processing, in both tools: when one
   of the input paths does not exist the run exits non-zero in validate_files,
   before any source is read and before any output is written, whatever the
   other paths hold. *)
C16_ExistenceCheckFirst ==
    (\E i \in 1..Len(files) : ~IsFile(files[i])) =>
        /\ pc \in {"validate_files", "filter_validate_files", "exit"}
        /\ pc = "exit" => error = "missing_file"
        /\ idx = 1
        /\ chunk_start = 0
        /\ merged_data = <<>>
        /\ total_rows = 0
        /\ filtered_chunks = <<>>
        /\ total_filtered_rows = 0
        /\ output = NoFile

\* The filter has ended in validate_files: its first input file is a table
\* with a row of a requested suburb, a later path does not exist.
C16_Witness ==
    /\ pc = "exit"
    /\ error = "missing_file"
    /\ suburbs /= <<>>
    /\ Len(files) >= 2
    /\ ValidTable(files[1])
    /\ \E i \in 1..Len(files[1].rows) : IsIn(files[1].rows[i]["Suburb - Incident"], suburbs)
    /\ \E i \in 2..Len(files) : ~IsFile(files[i])
    /\ output = NoFile

\* The merge has ended in validate_files: its first input file is a table
\* with rows, a later path does not exist.
C16_MergeWitness ==
    /\ pc = "exit"
    /\ error = "missing_file"
    /\ suburbs = <<>>
    /\ Len(files) >= 2
    /\ ValidTable(files[1])
    /\ files[1].rows /= <<>>
    /\ \E i \in 2..Len(files) : ~IsFile(files[i])
    /\ output = NoFile

====
